---- MODULE Spec2Model ----
(***************************************************************************)
(* Model of src/lambda_function.py: lambda_handler and its two helpers,    *)
(* check_distribution_exists and create_invalidation, run against a        *)
(* CloudFront client whose replies are chosen nondeterministically.        *)
(*                                                                         *)
(* One invocation is a linear walk  idle -> extract -> check -> create ->  *)
(* done, with a detour through "except" when a statement raises inside the *)
(* try block (lines 20-97).  The clock and the log of invalidation batches *)
(* sent to the platform outlive an invocation; everything else is local to *)
(* one.                                                                    *)
(*                                                                         *)
(* Strings of the bounded input sets hold no character that json.dumps     *)
(* escapes, so json_dumps renders them between plain double quotes.        *)
(***************************************************************************)
EXTENDS Integers, Sequences, FiniteSets, TLC

\* ------------------------------------------------------------------ bounds
\* Invocations of the handler in one behaviour.
MaxInvocations == 2
\* Last clock tick; the clock starts at 0.
MaxClock == 3
\* Clock ticks in one second of wall-clock time (time.time() is fractional).
TicksPerSecond == 2

\* ----------------------------------------------------------- Python values
\* A Python value: None, a str, a bool or a list of str; Absent marks a key
\* that the mapping does not hold.
PyNone == [t |-> "none", s |-> "", b |-> FALSE, l |-> <<>>]
Absent == [t |-> "absent", s |-> "", b |-> FALSE, l |-> <<>>]
PyStr(x) == [t |-> "str", s |-> x, b |-> FALSE, l |-> <<>>]
PyBool(x) == [t |-> "bool", s |-> "", b |-> x, l |-> <<>>]
PyList(xs) == [t |-> "list", s |-> "", b |-> FALSE, l |-> xs]

\* Python truth value: None, "", False and [] are falsy.
\* (variant: a test against "" alone, which lets None through)
TruthyNoneIsTrue(v) ==
    CASE v.t = "none" -> TRUE
      [] v.t = "str" -> v.s /= ""
      [] v.t = "bool" -> v.b
      [] v.t = "list" -> v.l /= <<>>
      [] OTHER -> FALSE
Truthy(v) ==
    CASE v.t = "none" -> FALSE
      [] v.t = "str" -> v.s /= ""
      [] v.t = "bool" -> v.b
      [] v.t = "list" -> v.l /= <<>>
      [] OTHER -> FALSE

\* dict.get(key, default) on the looked-up slot of the mapping.
DictGet(slot, default) == IF slot.t = "absent" THEN default ELSE slot

\* ------------------------------------------------------------- json.dumps
RECURSIVE JoinQuoted(_)
JoinQuoted(xs) ==
    IF xs = <<>> THEN ""
    ELSE IF Len(xs) = 1 THEN "\"" \o xs[1] \o "\""
    ELSE "\"" \o xs[1] \o "\", " \o JoinQuoted(Tail(xs))

json_value(v) ==
    CASE v.t = "none" -> "null"
      [] v.t = "str" -> "\"" \o v.s \o "\""
      [] v.t = "bool" -> IF v.b THEN "true" ELSE "false"
      [] v.t = "list" -> "[" \o JoinQuoted(v.l) \o "]"
      [] OTHER -> "null"

\* json.dumps of a dict given as its items in insertion order.
RECURSIVE json_items(_)
json_items(items) ==
    IF items = <<>> THEN ""
    ELSE "\"" \o items[1][1] \o "\": " \o json_value(items[1][2])
         \o (IF Len(items) = 1 THEN "" ELSE ", " \o json_items(Tail(items)))

json_dumps(items) == "{" \o json_items(items) \o "}"

\* ------------------------------------------------------------ str(int(t))
Digit(d) ==
    CASE d = 0 -> "0" [] d = 1 -> "1" [] d = 2 -> "2" [] d = 3 -> "3"
      [] d = 4 -> "4" [] d = 5 -> "5" [] d = 6 -> "6" [] d = 7 -> "7"
      [] d = 8 -> "8" [] OTHER -> "9"

RECURSIVE IntToStr(_)
IntToStr(n) == IF n < 10 THEN Digit(n) ELSE IntToStr(n \div 10) \o Digit(n % 10)

\* int(time.time()) with the clock counted in ticks.
EpochSeconds(ticks) == ticks \div TicksPerSecond

\* (variant: the time is not truncated to whole seconds)
CallerReferencePerTick(ticks) == "lambda-invalidation-" \o IntToStr(ticks)
\* caller_reference = f"lambda-invalidation-{int(time.time())}"
CallerReference(ticks) == "lambda-invalidation-" \o IntToStr(EpochSeconds(ticks))

\* ------------------------------------------------------------------ inputs
\* Values the caller may put under 'distribution_id' and under 'paths'.
EventIds == {Absent, PyNone, PyStr(""), PyStr("E123"), PyStr("E999")}
EventPaths == {Absent, PyNone, PyList(<<"/b", "/a">>), PyList(<<>>)}

\* The event: a mapping, or something that is no mapping (None, a list).
Events ==
    [type : {"dict"}, distribution_id : EventIds, paths : EventPaths]
    \cup [type : {"NoneType", "list"}, distribution_id : {Absent}, paths : {Absent}]

\* Error codes and messages the platform reports in a ClientError.
ClientErrors ==
    { [Code |-> "NoSuchDistribution",
       Message |-> "The specified distribution does not exist."],
      [Code |-> "AccessDenied", Message |-> "User is not authorized"] }

\* str() of an exception of the client that is no ClientError.
TransportErrors == {"Read timeout on endpoint URL"}

\* A reply of the platform client to one call.  kind "ok": a response; missing
\* names the key the response lacks ("" when complete).  kind "ClientError":
\* botocore's ClientError with Code and Message.  kind "Exception": any other
\* exception, with its str().  accepted: the platform created the invalidation.
Reply(kind, Status, Enabled, Id, missing, Code, Message, text, accepted) ==
    [kind |-> kind, Status |-> Status, Enabled |-> Enabled, Id |-> Id,
     missing |-> missing, Code |-> Code, Message |-> Message, text |-> text,
     accepted |-> accepted]

GetDistributionReplies ==
    { Reply("ok", st, en, "", "", "", "", "", FALSE) :
        st \in {"InProgress", "Deployed"}, en \in BOOLEAN }
    \cup { Reply("ok", "Deployed", TRUE, "", m, "", "", "", FALSE) :
        m \in {"Distribution", "Enabled"} }
    \cup { Reply("ClientError", "", FALSE, "", "", ce.Code, ce.Message, "", FALSE) :
        ce \in ClientErrors }
    \cup { Reply("Exception", "", FALSE, "", "", "", "", tx, FALSE) :
        tx \in TransportErrors }

CreateInvalidationReplies ==
    { Reply("ok", "", FALSE, id, "", "", "", "", TRUE) : id \in {"INV1", "INV2", ""} }
    \cup { Reply("ok", "", FALSE, "", m, "", "", "", TRUE) : m \in {"Invalidation", "Id"} }
    \cup { Reply("ClientError", "", FALSE, "", "", ce.Code, ce.Message, "", FALSE) :
        ce \in ClientErrors }
    \cup { Reply("Exception", "", FALSE, "", "", "", "", tx, acc) :
        tx \in TransportErrors, acc \in BOOLEAN }

\* ------------------------------------------------------------- exceptions
NoException == [kind |-> "none", Code |-> "", Message |-> "", text |-> ""]
\* botocore.exceptions.ClientError carrying response['Error'].
ClientError(code, message) ==
    [kind |-> "ClientError", Code |-> code, Message |-> message, text |-> ""]
\* Any other Exception; text is str(e).
OtherException(text) ==
    [kind |-> "Exception", Code |-> "", Message |-> "", text |-> text]
\* str(KeyError(key)) is repr(key).
KeyError(key) == OtherException("'" \o key \o "'")
\* event.get on an object that is no mapping.
AttributeErrorGet(type) ==
    OtherException("'" \o type \o "' object has no attribute 'get'")
\* len(None)
TypeErrorLen == OtherException("object of type 'NoneType' has no len()")

\* What a helper hands back: a value, or a raised exception.
Returned(v) == [raises |-> FALSE, value |-> v, exc |-> NoException]
Raised(e) == [raises |-> TRUE, value |-> PyNone, exc |-> e]

\* -------------------------------------------------------------- responses
NoResponse == [statusCode |-> 0, body |-> ""]

\* lines 27-32
MissingIdResponse ==
    [statusCode |-> 400,
     body |-> json_dumps(<< <<"error",
                 PyStr("distribution_id is required in the event payload")>> >>)]

\* lines 40-45
NotFoundResponse(id) ==
    [statusCode |-> 404,
     body |-> json_dumps(<< <<"error",
                 PyStr("CloudFront distribution " \o id \o " not found")>> >>)]

\* lines 55-60
InvalidationFailedResponse ==
    [statusCode |-> 500,
     body |-> json_dumps(<< <<"error", PyStr("Failed to create invalidation")>> >>)]

\* lines 65-74
SuccessResponse(id, invalidation_id, pathsv) ==
    [statusCode |-> 200,
     body |-> json_dumps(<< <<"message",
                              PyStr("CloudFront invalidation created successfully")>>,
                            <<"distribution_id", PyStr(id)>>,
                            <<"invalidation_id", invalidation_id>>,
                            <<"paths", pathsv>>,
                            <<"success", PyBool(TRUE)>> >>)]

\* lines 76-87
ClientErrorResponse(e) ==
    [statusCode |-> 500,
     body |-> json_dumps(<< <<"error",
                 PyStr("AWS Error: " \o e.Code \o " - " \o e.Message)>>,
                            <<"success", PyBool(FALSE)>> >>)]

\* lines 89-97
UnexpectedErrorResponse(e) ==
    [statusCode |-> 500,
     body |-> json_dumps(<< <<"error", PyStr("Unexpected error: " \o e.text)>>,
                            <<"success", PyBool(FALSE)>> >>)]

\* ---------------------------------------------------------------- helpers
\* (variant: every ClientError is raised again, NoSuchDistribution included)
check_distribution_exists_Reraise(reply) ==
    CASE reply.kind = "ClientError" ->
            Raised(ClientError(reply.Code, reply.Message))
      [] reply.kind = "Exception" -> Raised(OtherException(reply.text))
      [] OTHER ->
            IF reply.missing /= ""
            THEN Raised(KeyError(reply.missing))
            ELSE Returned(PyBool(reply.Enabled))

\* (variant: every ClientError counts as "not found")
check_distribution_exists_SwallowAll(reply) ==
    CASE reply.kind = "ClientError" -> Returned(PyBool(FALSE))
      [] reply.kind = "Exception" -> Raised(OtherException(reply.text))
      [] OTHER ->
            IF reply.missing /= ""
            THEN Raised(KeyError(reply.missing))
            ELSE Returned(PyBool(reply.Enabled))

\* (variant: a distribution that exists counts as usable, enabled or not)
check_distribution_exists_IgnoreEnabled(reply) ==
    CASE reply.kind = "ClientError" ->
            IF reply.Code = "NoSuchDistribution"
            THEN Returned(PyBool(FALSE))
            ELSE Raised(ClientError(reply.Code, reply.Message))
      [] reply.kind = "Exception" -> Raised(OtherException(reply.text))
      [] OTHER ->
            IF reply.missing /= ""
            THEN Raised(KeyError(reply.missing))
            ELSE Returned(PyBool(TRUE))

\* check_distribution_exists, given the reply of cloudfront.get_distribution.
check_distribution_exists(reply) ==
    CASE reply.kind = "ClientError" ->
            IF reply.Code = "NoSuchDistribution"
            THEN Returned(PyBool(FALSE))
            ELSE Raised(ClientError(reply.Code, reply.Message))
      [] reply.kind = "Exception" -> Raised(OtherException(reply.text))
      [] OTHER ->
            IF reply.missing /= ""
            THEN Raised(KeyError(reply.missing))
            ELSE Returned(PyBool(reply.Enabled))

\* len(paths) is taken before the call: with paths None nothing is sent.
CallsCreateInvalidation(pathsv) == pathsv.t = "list"

\* (variant: Quantity is fixed at 1)
InvalidationRequestQuantityOne(id, pathsv, ticks) ==
    [op |-> "create_invalidation", Id |-> id, Quantity |-> 1,
     Items |-> pathsv.l, CallerReference |-> CallerReference(ticks)]

\* The arguments of cloudfront.create_invalidation (lines 130-139).
InvalidationRequest(id, pathsv, ticks) ==
    [op |-> "create_invalidation", Id |-> id, Quantity |-> Len(pathsv.l),
     Items |-> pathsv.l, CallerReference |-> CallerReference(ticks)]

\* The arguments of cloudfront.get_distribution (line 104).
DistributionRequest(id) ==
    [op |-> "get_distribution", Id |-> id, Quantity |-> 0, Items |-> <<>>,
     CallerReference |-> ""]

\* (variant: a ClientError is raised again, as check_distribution_exists does)
create_invalidation_Reraise(pathsv, reply) ==
    CASE ~CallsCreateInvalidation(pathsv) -> Raised(TypeErrorLen)
      [] reply.kind = "ClientError" ->
            Raised(ClientError(reply.Code, reply.Message))
      [] reply.kind = "Exception" -> Raised(OtherException(reply.text))
      [] OTHER ->
            IF reply.missing /= ""
            THEN Raised(KeyError(reply.missing))
            ELSE Returned(PyStr(reply.Id))

\* (variant: a ClientError yields a placeholder id instead of None)
create_invalidation_PlaceholderId(pathsv, reply) ==
    CASE ~CallsCreateInvalidation(pathsv) -> Raised(TypeErrorLen)
      [] reply.kind = "ClientError" -> Returned(PyStr("unknown"))
      [] reply.kind = "Exception" -> Raised(OtherException(reply.text))
      [] OTHER ->
            IF reply.missing /= ""
            THEN Raised(KeyError(reply.missing))
            ELSE Returned(PyStr(reply.Id))

\* (variant: "except Exception" in place of "except ClientError")
create_invalidation_CatchAll(pathsv, reply) ==
    CASE ~CallsCreateInvalidation(pathsv) -> Returned(PyNone)
      [] reply.kind = "ClientError" -> Returned(PyNone)
      [] reply.kind = "Exception" -> Returned(PyNone)
      [] OTHER ->
            IF reply.missing /= ""
            THEN Returned(PyNone)
            ELSE Returned(PyStr(reply.Id))

\* create_invalidation, given the reply of cloudfront.create_invalidation.
create_invalidation(pathsv, reply) ==
    CASE ~CallsCreateInvalidation(pathsv) -> Raised(TypeErrorLen)
      [] reply.kind = "ClientError" -> Returned(PyNone)
      [] reply.kind = "Exception" -> Raised(OtherException(reply.text))
      [] OTHER ->
            IF reply.missing /= ""
            THEN Raised(KeyError(reply.missing))
            ELSE Returned(PyStr(reply.Id))

\* ------------------------------------------------------------------ state
VARIABLES
    pc,               \* where the invocation stands
    event,            \* the event of the invocation
    distribution_id,  \* local of lambda_handler (line 22)
    paths,            \* local of lambda_handler (line 23)
    raised,           \* the exception raised inside the try block, if any
    response,         \* the envelope lambda_handler returned
    calls,            \* platform calls of this invocation, each with its reply
    sent,             \* every invalidation batch sent, with its invocation and tick
    clock,            \* wall-clock time in ticks
    invocation        \* number of the invocation (0 before the first)

vars == <<pc, event, distribution_id, paths, raised, response, calls, sent,
          clock, invocation>>

NoEvent == [type |-> "dict", distribution_id |-> Absent, paths |-> Absent]

Init ==
    /\ pc = "idle"
    /\ event = NoEvent
    /\ distribution_id = PyNone
    /\ paths = PyNone
    /\ raised = NoException
    /\ response = NoResponse
    /\ calls = <<>>
    /\ sent = <<>>
    /\ clock = 0
    /\ invocation = 0

\* The invocation is over: the handler returned, or an exception left it.
Finished == pc \in {"returned", "escaped"}

\* The runtime calls lambda_handler(event, context).
Invoke(e) ==
    /\ pc = "idle" \/ Finished
    /\ invocation < MaxInvocations
    /\ invocation' = invocation + 1
    /\ event' = e
    /\ pc' = "client"
    /\ distribution_id' = PyNone
    /\ paths' = PyNone
    /\ raised' = NoException
    /\ response' = NoResponse
    /\ calls' = <<>>
    /\ UNCHANGED <<sent, clock>>

\* line 18: boto3.client('cloudfront') returns the client.
ClientConstructed ==
    /\ pc = "client"
    /\ pc' = "extract"
    /\ UNCHANGED <<event, distribution_id, paths, raised, response, calls, sent,
                   clock, invocation>>

\* line 18 raises: the statement stands before the try, nothing catches it.
ClientConstructionFails ==
    /\ pc = "client"
    /\ pc' = "escaped"
    /\ UNCHANGED <<event, distribution_id, paths, raised, response, calls, sent,
                   clock, invocation>>

\* lines 22-32: read the parameters, refuse a missing distribution_id.
ExtractParameters ==
    /\ pc = "extract"
    /\ IF event.type /= "dict"
       THEN /\ raised' = AttributeErrorGet(event.type)
            /\ pc' = "except"
            /\ UNCHANGED <<distribution_id, paths, response>>
       ELSE /\ distribution_id' = DictGet(event.distribution_id, PyNone)
            /\ paths' = DictGet(event.paths, PyList(<<"/*">>))
            /\ IF ~Truthy(distribution_id')
               THEN /\ response' = MissingIdResponse
                    /\ pc' = "returned"
               ELSE /\ response' = response
                    /\ pc' = "check"
            /\ UNCHANGED raised
    /\ UNCHANGED <<event, calls, sent, clock, invocation>>

\* lines 36-45: check_distribution_exists and the branch on its result.
CheckDistribution(reply) ==
    /\ pc = "check"
    /\ calls' = Append(calls, [request |-> DistributionRequest(distribution_id.s),
                               reply |-> reply])
    /\ LET r == check_distribution_exists(reply) IN
       IF r.raises
       THEN /\ raised' = r.exc
            /\ pc' = "except"
            /\ UNCHANGED response
       ELSE IF ~Truthy(r.value)
       THEN /\ response' = NotFoundResponse(distribution_id.s)
            /\ pc' = "returned"
            /\ UNCHANGED raised
       ELSE /\ pc' = "create"
            /\ UNCHANGED <<raised, response>>
    /\ UNCHANGED <<event, distribution_id, paths, sent, clock, invocation>>

\* lines 51-74: create_invalidation and the branch on its result.
CreateInvalidation(reply) ==
    /\ pc = "create"
    /\ IF CallsCreateInvalidation(paths)
       THEN LET req == InvalidationRequest(distribution_id.s, paths, clock) IN
            /\ calls' = Append(calls, [request |-> req, reply |-> reply])
            /\ sent' = Append(sent, [invocation |-> invocation, tick |-> clock,
                                     request |-> req])
       ELSE UNCHANGED <<calls, sent>>
    /\ LET r == create_invalidation(paths, reply) IN
       IF r.raises
       THEN /\ raised' = r.exc
            /\ pc' = "except"
            /\ UNCHANGED response
       ELSE IF ~Truthy(r.value)
       THEN /\ response' = InvalidationFailedResponse
            /\ pc' = "returned"
            /\ UNCHANGED raised
       ELSE /\ response' = SuccessResponse(distribution_id.s, r.value, paths)
            /\ pc' = "returned"
            /\ UNCHANGED raised
    /\ UNCHANGED <<event, distribution_id, paths, clock, invocation>>

\* lines 76-87: except ClientError.
ExceptClientError ==
    /\ pc = "except"
    /\ raised.kind = "ClientError"
    /\ response' = ClientErrorResponse(raised)
    /\ pc' = "returned"
    /\ UNCHANGED <<event, distribution_id, paths, raised, calls, sent, clock,
                   invocation>>

\* lines 89-97: except Exception.
ExceptException ==
    /\ pc = "except"
    /\ raised.kind = "Exception"
    /\ response' = UnexpectedErrorResponse(raised)
    /\ pc' = "returned"
    /\ UNCHANGED <<event, distribution_id, paths, raised, calls, sent, clock,
                   invocation>>

\* Wall-clock time passes, between invocations and before time.time() is read.
Tick ==
    /\ pc \in {"idle", "create"} \/ Finished
    /\ clock < MaxClock
    /\ clock' = clock + 1
    /\ UNCHANGED <<pc, event, distribution_id, paths, raised, response, calls,
                   sent, invocation>>

Next ==
    \/ \E e \in Events : Invoke(e)
    \/ ClientConstructed
    \/ ClientConstructionFails
    \/ ExtractParameters
    \/ \E reply \in GetDistributionReplies : CheckDistribution(reply)
    \/ \E reply \in CreateInvalidationReplies : CreateInvalidation(reply)
    \/ ExceptClientError
    \/ ExceptException
    \/ Tick

Spec == Init /\ [][Next]_vars

\* ------------------------------------------------------- reading the state
\* The invocation's call number i is the named operation.
IsGet(i) == calls[i].request.op = "get_distribution"
IsCreate(i) == calls[i].request.op = "create_invalidation"

\* A complete response (no key missing).
CompleteReply(r) == r.kind = "ok" /\ r.missing = ""

\* The platform created an invalidation for this invocation.
InvalidationCreated == \E i \in DOMAIN calls : IsCreate(i) /\ calls[i].reply.accepted

\* The existence check of this invocation passed.
CheckPassed ==
    \E i \in DOMAIN calls :
        IsGet(i) /\ CompleteReply(calls[i].reply) /\ calls[i].reply.Enabled

\* The envelope with the given status and body text.
Envelope(status, body) == [statusCode |-> status, body |-> body]

\* The path list of the event as JSON text, ["/*"] when the key is absent.
EventPathsJson ==
    CASE event.paths = Absent -> "[\"/*\"]"
      [] event.paths = PyList(<<"/b", "/a">>) -> "[\"/b\", \"/a\"]"
      [] event.paths = PyList(<<>>) -> "[]"
      [] OTHER -> "null"

\* The path list of the event as a sequence.
EventPathItems == IF event.paths = Absent THEN <<"/*">> ELSE event.paths.l

\* ------------------------------------------------------------------ claims

\* C1: for an event (a mapping) whose distribution_id is absent, None or "",
\* whatever 'paths' holds, no platform call is ever made in the invocation,
\* the handler never reaches the existence check, and the envelope it returns
\* is 400 with the 'error' body and nothing else.
C1_MissingIdRefused ==
    (invocation > 0 /\ event.type = "dict"
        /\ event.distribution_id \in {Absent, PyNone, PyStr("")})
    => /\ calls = <<>>
       /\ pc \in {"client", "extract", "returned", "escaped"}
       /\ raised = NoException
       /\ pc = "returned" =>
            response = Envelope(400,
                "{\"error\": \"distribution_id is required in the event payload\"}")

C1_Witness ==
    /\ pc = "returned"
    /\ event.distribution_id = PyNone
    /\ event.paths = PyNone
    /\ response.statusCode = 400
    /\ calls = <<>>

\* C2: when get_distribution raises NoSuchDistribution, or returns a
\* distribution whose Enabled is false (whatever its Status), the handler
\* returns 404 with an 'error' body naming the id and no 'success' key, and
\* get_distribution is the only platform call of the invocation.
C2_NotFoundOrDisabled ==
    \A i \in DOMAIN calls :
        ( /\ IsGet(i)
          /\ \/ calls[i].reply.kind = "ClientError"
                /\ calls[i].reply.Code = "NoSuchDistribution"
             \/ CompleteReply(calls[i].reply) /\ ~calls[i].reply.Enabled )
        => /\ pc = "returned"
           /\ Len(calls) = 1
           /\ event.distribution_id.s /= ""
           /\ response = Envelope(404,
                "{\"error\": \"CloudFront distribution " \o event.distribution_id.s
                    \o " not found\"}")

C2_Witness ==
    /\ pc = "returned"
    /\ response.statusCode = 404
    /\ Len(calls) = 1
    /\ calls[1].reply.kind = "ok"
    /\ calls[1].reply.Status = "InProgress"
    /\ ~calls[1].reply.Enabled

\* C3: when the distribution is reported Enabled (whatever its Status) and
\* create_invalidation returns a non-empty id, the handler returns 200 whose
\* body carries the input id, the platform's invalidation id, the input paths
\* in their order (["/*"] when omitted) and success true; the batch sent names
\* exactly those paths, with Quantity their count.
C3_Success ==
    \A i \in DOMAIN calls :
        (IsCreate(i) /\ CompleteReply(calls[i].reply) /\ calls[i].reply.Id /= "")
        => /\ pc = "returned"
           /\ CheckPassed
           /\ calls[i].request.Id = event.distribution_id.s
           /\ calls[i].request.Items = EventPathItems
           /\ calls[i].request.Quantity = Len(EventPathItems)
           /\ response = Envelope(200,
                "{\"message\": \"CloudFront invalidation created successfully\", "
                \o "\"distribution_id\": \"" \o event.distribution_id.s \o "\", "
                \o "\"invalidation_id\": \"" \o calls[i].reply.Id \o "\", "
                \o "\"paths\": " \o EventPathsJson \o ", "
                \o "\"success\": true}")

C3_Witness ==
    /\ pc = "returned"
    /\ response.statusCode = 200
    /\ event.paths = PyList(<<"/b", "/a">>)
    /\ Len(calls) = 2
    /\ calls[1].reply.Status = "InProgress"
    /\ calls[2].reply.Id = "INV2"
    /\ calls[2].request.Quantity = 2

C3_WitnessDefaultPaths ==
    /\ pc = "returned"
    /\ response.statusCode = 200
    /\ event.paths = Absent
    /\ calls[2].request.Items = <<"/*">>

\* C4 as claimed: whenever the existence check passed and the
\* create_invalidation call fails, in whatever way, the handler returns 500
\* with exactly the generic error and no 'success' key.
C4_AnyFailureIsGeneric ==
    \A i \in DOMAIN calls :
        (IsCreate(i) /\ calls[i].reply.kind \in {"ClientError", "Exception"}
            /\ pc = "returned")
        => response = Envelope(500, "{\"error\": \"Failed to create invalidation\"}")

\* C4 as amended: whenever the existence check passed and the
\* create_invalidation call fails with a platform ClientError, the handler
\* returns 500 with exactly the generic error and no 'success' key; the error's
\* code and message are not in the response.
C4_ClientErrorIsGeneric ==
    \A i \in DOMAIN calls :
        (IsCreate(i) /\ calls[i].reply.kind = "ClientError")
        => /\ CheckPassed
           /\ pc = "returned"
           /\ raised = NoException
           /\ response = Envelope(500, "{\"error\": \"Failed to create invalidation\"}")

C4_Witness ==
    /\ pc = "returned"
    /\ Len(calls) = 2
    /\ calls[2].reply.kind = "ClientError"
    /\ calls[2].reply.Code = "AccessDenied"
    /\ response.statusCode = 500

\* C5: when get_distribution fails with a ClientError whose code is not
\* NoSuchDistribution, that error leaves check_distribution_exists, no further
\* platform call is made, and the handler returns 500 with success false and
\* an error text holding the error's code and message.
C5_CheckErrorPropagates ==
    \A i \in DOMAIN calls :
        (IsGet(i) /\ calls[i].reply.kind = "ClientError"
            /\ calls[i].reply.Code /= "NoSuchDistribution")
        => /\ Len(calls) = 1
           /\ raised = ClientError(calls[i].reply.Code, calls[i].reply.Message)
           /\ pc \in {"except", "returned"}
           /\ pc = "returned" =>
                response = Envelope(500,
                    "{\"error\": \"AWS Error: " \o calls[i].reply.Code \o " - "
                    \o calls[i].reply.Message \o "\", \"success\": false}")

C5_Witness ==
    /\ pc = "returned"
    /\ Len(calls) = 1
    /\ calls[1].reply.Code = "AccessDenied"
    /\ response.statusCode = 500

\* C6 as claimed: every invocation, whatever the event and the client do
\* (a failure while constructing the client included), ends by returning one
\* envelope whose statusCode is 200, 400, 404 or 500; no exception leaves
\* lambda_handler.
C6_AlwaysOneEnvelope ==
    Finished => /\ pc = "returned"
                /\ response.statusCode \in {200, 400, 404, 500}

\* C7 as claimed: the handler returns 200 if and only if its
\* create_invalidation call created an invalidation; with 400, 404 or 500
\* none was created.
C7_NoPartialSuccess ==
    pc = "returned" => (response.statusCode = 200 <=> InvalidationCreated)

\* C7 as amended: a 200 is returned exactly when the create_invalidation call
\* returned a non-empty id, and then the invalidation was created; with 400 or
\* 404 no batch was sent and none was created; a 500 follows a created
\* invalidation only when the platform answered with an empty or incomplete
\* response, or the call raised something other than a ClientError.
C7_SuccessOnlyIfCreated ==
    pc = "returned" =>
        /\ response.statusCode = 200 <=>
             \E i \in DOMAIN calls :
                 IsCreate(i) /\ CompleteReply(calls[i].reply) /\ calls[i].reply.Id /= ""
        /\ response.statusCode = 200 => InvalidationCreated
        /\ response.statusCode \in {400, 404} =>
             ~InvalidationCreated /\ \A i \in DOMAIN calls : ~IsCreate(i)
        /\ (response.statusCode = 500 /\ InvalidationCreated) =>
             \E i \in DOMAIN calls :
                 /\ IsCreate(i)
                 /\ \/ calls[i].reply.kind = "Exception"
                    \/ calls[i].reply.kind = "ok"
                       /\ (calls[i].reply.missing /= "" \/ calls[i].reply.Id = "")

C7_Witness ==
    /\ pc = "returned"
    /\ response.statusCode = 500
    /\ InvalidationCreated
    /\ calls[2].reply.kind = "ok"
    /\ calls[2].reply.missing = ""
    /\ calls[2].reply.Id = ""

\* C8: an exception that is no ClientError, raised inside the try block (the
\* event is no mapping, a platform response lacks a key, 'paths' is None so
\* len() fails, the client raises something else), reaches "except Exception":
\* the handler returns 500 with success false and the error text
\* "Unexpected error: " followed by str(e); never the generic error, never 200.
C8_UnexpectedError ==
    /\ (invocation > 0 /\ event.type /= "dict"
            /\ pc \notin {"client", "extract", "escaped"})
       => raised = OtherException("'" \o event.type
                                  \o "' object has no attribute 'get'")
    /\ \A i \in DOMAIN calls :
           (calls[i].reply.kind = "ok" /\ calls[i].reply.missing /= "")
           => raised = OtherException("'" \o calls[i].reply.missing \o "'")
    /\ \A i \in DOMAIN calls :
           calls[i].reply.kind = "Exception"
           => raised = OtherException(calls[i].reply.text)
    /\ (CheckPassed /\ event.paths = PyNone /\ pc /= "create")
       => /\ raised = OtherException("object of type 'NoneType' has no len()")
          /\ Len(calls) = 1
    /\ raised.kind = "Exception"
       => /\ pc \in {"except", "returned"}
          /\ pc = "returned" =>
               response = Envelope(500,
                   "{\"error\": \"Unexpected error: " \o raised.text
                   \o "\", \"success\": false}")

C8_Witness ==
    /\ pc = "returned"
    /\ event.paths = PyNone
    /\ CheckPassed
    /\ raised.text = "object of type 'NoneType' has no len()"
    /\ response.statusCode = 500

C8_WitnessNoMapping ==
    /\ pc = "returned"
    /\ event.type = "NoneType"
    /\ response.statusCode = 500

\* C9: the platform calls of one invocation are at most a get_distribution
\* followed by at most one create_invalidation; create_invalidation is called
\* only after get_distribution returned Enabled = true for the same id; after
\* a failed call, and once the handler is over, no further call is made.
C9_CallsWellFormed ==
    /\ Len(calls) <= 2
    /\ Len(calls) >= 1 =>
         /\ IsGet(1)
         /\ calls[1].request.Id = event.distribution_id.s
         /\ event.distribution_id.s /= ""
    /\ Len(calls) = 2 =>
         /\ IsCreate(2)
         /\ CompleteReply(calls[1].reply)
         /\ calls[1].reply.Enabled
         /\ calls[2].request.Id = calls[1].request.Id

C9_LinearCalls ==
    [][ /\ C9_CallsWellFormed'
        /\ (pc' /= "client" /\ calls' /= calls) =>
             /\ Len(calls') = Len(calls) + 1
             /\ SubSeq(calls', 1, Len(calls)) = calls
             /\ pc \in {"check", "create"}
             /\ \A i \in DOMAIN calls : CompleteReply(calls[i].reply) ]_vars

C9_Witness ==
    /\ pc = "returned"
    /\ Len(calls) = 2
    /\ calls[2].reply.kind = "ClientError"

\* C10: the CallerReference is "lambda-invalidation-" followed by the
\* wall-clock time in whole seconds and depends on nothing else: two batches
\* sent within the same second carry the same token, whatever their
\* distribution ids and paths, and batches sent in different seconds carry
\* different tokens.
C10_TokenPerSecond ==
    \A i \in DOMAIN sent : \A j \in DOMAIN sent :
        (sent[i].tick \div TicksPerSecond = sent[j].tick \div TicksPerSecond)
        <=> (sent[i].request.CallerReference = sent[j].request.CallerReference)

C10_Witness ==
    \E i \in DOMAIN sent : \E j \in DOMAIN sent :
        /\ sent[i].invocation /= sent[j].invocation
        /\ sent[i].tick /= sent[j].tick
        /\ sent[i].request.Id /= sent[j].request.Id
        /\ sent[i].request.Items /= sent[j].request.Items
        /\ sent[i].request.CallerReference = sent[j].request.CallerReference

C10_WitnessDifferentSeconds ==
    \E i \in DOMAIN sent : \E j \in DOMAIN sent :
        /\ sent[i].invocation /= sent[j].invocation
        /\ sent[i].request.CallerReference = "lambda-invalidation-0"
        /\ sent[j].request.CallerReference = "lambda-invalidation-1"

====
